---- MODULE Spec2Model ----
(***************************************************************************)
(* trip-sass: the Sass build step of the trip build tool.                  *)
(*                                                                         *)
(* The repository holds two revisions of the plugin, src/src/index.js and  *)
(* src/unnamed/part_000.  They share the import resolver and differ in the *)
(* root of the virtual build graph, the default include pattern, the       *)
(* extension stripped for the output name, the specifier memo and the      *)
(* handling of a compile failure.  The variable `variant` says which       *)
(* revision a behaviour runs.                                              *)
(*                                                                         *)
(* Strings are sequences of tokens: "/" separates path segments, "_" is    *)
(* the partial marker, ".scss" ".sass" ".css" ".txt" are extensions, any   *)
(* other token is a run of ordinary characters.                            *)
(***************************************************************************)
EXTENDS Integers, Sequences, FiniteSets, TLC

(* ------------------------------ bounds -------------------------------- *)

\* size of the initial world: the files present in the graph and on the
\* disk, an unreadable file counting twice
MaxWorldFiles == 3

\* @import requests the compiler issues during one compile
MaxImports == 2

\* writes to existing disk files by the environment
MaxWrites == 1

\* @import requests of one compile that may be unanswered at the same time
MaxOverlap == 2

(* --------------------------- string helpers --------------------------- *)

Undefined == <<"#undefined">>

Null == [type |-> "null"]

Stdin == <<"stdin">>

\* index of the last "/" of s, 0 when there is none
LastSlash(s) ==
  LET idx == {i \in 1..Len(s) : s[i] = "/"}
  IN  IF idx = {} THEN 0 ELSE CHOOSE i \in idx : \A j \in idx : j <= i

\* String.prototype.charAt(0)
CharAt0(s) == IF s = <<>> THEN "" ELSE s[1]

\* String.prototype.endsWith / the test of /\.s[ca]ss$/
EndsWith(s, ext) == Len(s) > 0 /\ s[Len(s)] = ext

\* path.basename
Basename(s) == SubSeq(s, LastSlash(s) + 1, Len(s))

\* path.dirname
Dirname(s) ==
  LET k == LastSlash(s)
  IN  IF k = 0 THEN <<".">>
      ELSE IF k = 1 THEN <<"/">>
      ELSE SubSeq(s, 1, k - 1)

\* path.isAbsolute
IsAbsolute(s) == CharAt0(s) = "/"

\* path.join(dir, name) for a dir that is "." or a relative directory
PathJoin(dir, name) == IF dir = <<".">> THEN name ELSE dir \o <<"/">> \o name

\* path.resolve(from, to) for an absolute `from` and a `to` without "." or ".."
PathResolve(from, to) == IF IsAbsolute(to) THEN to ELSE from \o <<"/">> \o to

IsPrefix(p, s) == Len(p) <= Len(s) /\ SubSeq(s, 1, Len(p)) = p

\* subdir(base, candidate): candidate lies under base
Subdir(base, candidate) == IsPrefix(base \o <<"/">>, candidate)

\* path.relative(base, candidate) for a candidate under base
PathRelative(base, candidate) == SubSeq(candidate, Len(base) + 2, Len(candidate))

\* obj[key] of a plain object
Get(obj, key) == IF key \in DOMAIN obj THEN obj[key] ELSE Undefined

\* obj[key] = value
Put(obj, key, value) ==
  [k \in DOMAIN obj \cup {key} |-> IF k = key THEN value ELSE obj[k]]

(* ----------------------------- JS values ------------------------------ *)

\* the values an option may be given, tagged with their type
NotGiven == [type |-> "undefined"]

Str(s) == [type |-> "string", value |-> s]

Num(n) == [type |-> "number", number |-> n]

Bool(b) == [type |-> "boolean", bool |-> b]

Arr(items) == [type |-> "array", items |-> items]

PlainObject == [type |-> "object"]

\* the truth value of v in a condition: if (v), !v
Truthy(v) ==
  CASE v.type = "undefined" -> FALSE
    [] v.type = "null" -> FALSE
    [] v.type = "number" -> v.number # 0
    [] v.type = "string" -> v.value # <<>>
    [] v.type = "boolean" -> v.bool
    [] OTHER -> TRUE

\* _.isString
IsString(v) == v.type = "string"

\* Array.isArray
IsArray(v) == v.type = "array"

\* items.every(_.isString)
EveryIsString(items) == \A i \in 1..Len(items) : IsString(items[i])

(* ------------------------- candidate generator ------------------------ *)

\* Candidates with the bare names tried before the partials
CandidatesBareFirst(arg) ==
  LET argBasename == Basename(arg)
      argDirname == Dirname(arg)
      hasUnderscore == CharAt0(argBasename) = "_"
      hasExtension == EndsWith(arg, ".sass") \/ EndsWith(arg, ".scss")
  IN  IF ~hasUnderscore
      THEN IF hasExtension
           THEN << arg, PathJoin(argDirname, <<"_">> \o argBasename) >>
           ELSE << arg \o <<".scss">>,
                   arg \o <<".sass">>,
                   PathJoin(argDirname, <<"_">> \o argBasename \o <<".scss">>),
                   PathJoin(argDirname, <<"_">> \o argBasename \o <<".sass">>) >>
      ELSE IF hasExtension
           THEN << arg >>
           ELSE << arg \o <<".scss">>, arg \o <<".sass">> >>

\* Candidates with the partial marker looked for at the start of the whole
\* specifier instead of its basename
CandidatesMarkerOfPath(arg) ==
  LET argBasename == Basename(arg)
      argDirname == Dirname(arg)
      hasUnderscore == CharAt0(arg) = "_"
      hasExtension == EndsWith(arg, ".sass") \/ EndsWith(arg, ".scss")
  IN  IF ~hasUnderscore
      THEN IF hasExtension
           THEN << PathJoin(argDirname, <<"_">> \o argBasename), arg >>
           ELSE << PathJoin(argDirname, <<"_">> \o argBasename \o <<".scss">>),
                   PathJoin(argDirname, <<"_">> \o argBasename \o <<".sass">>),
                   arg \o <<".scss">>,
                   arg \o <<".sass">> >>
      ELSE IF hasExtension
           THEN << arg >>
           ELSE << arg \o <<".scss">>, arg \o <<".sass">> >>

\* the candidates of one @import, relative to a load path, in order
Candidates(arg) ==
  LET argBasename == Basename(arg)
      argDirname == Dirname(arg)
      hasUnderscore == CharAt0(argBasename) = "_"
      hasExtension == EndsWith(arg, ".sass") \/ EndsWith(arg, ".scss")
  IN  IF ~hasUnderscore
      THEN IF hasExtension
           THEN << PathJoin(argDirname, <<"_">> \o argBasename), arg >>
           ELSE << PathJoin(argDirname, <<"_">> \o argBasename \o <<".scss">>),
                   PathJoin(argDirname, <<"_">> \o argBasename \o <<".sass">>),
                   arg \o <<".scss">>,
                   arg \o <<".sass">> >>
      ELSE IF hasExtension
           THEN << arg >>
           ELSE << arg \o <<".scss">>, arg \o <<".sass">> >>

\* the candidates of one @import in one load path, as full paths
FullCandidates(loadPath, arg) ==
  LET c == Candidates(arg)
  IN  [i \in 1..Len(c) |-> PathResolve(loadPath, c[i])]

(* ------------------------------ the world ----------------------------- *)

\* root of the virtual build graph in src/src/index.js
FakeBase == <<"/", "__TRIP_SASS__">>

\* this.src, the source directory the build tool hands to the plugin
Src == <<"/", "proj">>

\* process.cwd()
Cwd == <<"/", "cwd">>

LoadDir1 == <<"/", "lib1">>

LoadDir2 == <<"/", "lib2">>

Variants == {"index", "part_000"}

\* values of the normalised options.loadPaths
LoadPathOptions == { <<>>, <<LoadDir1>>, <<LoadDir1, LoadDir2>> }

\* file names that may exist in a directory of the world
Names == { <<"_", "a", ".scss">>, <<"a", ".scss">> }

\* relative paths the build graph may hold
GraphUniverse == Names

\* a file of the source directory as it lies on the disk, whatever the build
\* graph holds for it
ShadowedFile == PathResolve(Src, <<"a", ".scss">>)

\* absolute paths the disk may hold under the load paths: files in a
\* directory that is never searched are never looked at
DiskUniverse(dirs) ==
  {PathResolve(dirs[i], n) : i \in 1..Len(dirs), n \in Names}

\* specifiers the compiler asks for; the other forms of a specifier are run
\* through the candidate generator on its own
ImportArgs == { <<"a">> }

\* input files handed to the build function
Files == { <<"m", ".scss">>, <<"m", ".sass">>,
           <<"_", "p", ".scss">>, <<"d", "/", "_", "p", ".sass">>,
           <<"n", ".txt">>, <<"_", "n", ".txt">> }

\* Buffers handed to the build function with a file
Buffers == { [type |-> "Buffer", data |-> <<>>],
             [type |-> "Buffer", data |-> <<"body">>] }

\* Buffer.prototype.toString
BufferToString(buffer) == buffer.data

\* raw messages of a compiler failure, as lists of lines
Messages == { <<"bad syntax", "  on line 3 of stdin">> }

\* a file token of a compiler failure that names no file of this compile
ForeignToken == <<"/", "elsewhere", "/", "x", ".scss">>

GraphText(rel) == rel \o <<"#graph">>

DiskText(path, version) == path \o <<"#disk", version>>

\* the initial worlds: which files the graph and the disk hold, and which
\* disk file cannot be read; the disk holds files of the load paths and of
\* the shadowed set
Worlds(dirs, shadowed) ==
  { w \in [g : SUBSET GraphUniverse,
           d : SUBSET (DiskUniverse(dirs) \cup shadowed),
           bad : SUBSET DiskUniverse(dirs)] :
      /\ w.bad \subseteq w.d
      /\ Cardinality(w.g) + Cardinality(w.d) + Cardinality(w.bad) <= MaxWorldFiles }

(* ------------------------------- state -------------------------------- *)

VARIABLES
  variant,                   \* which revision of the plugin runs
  loadPaths,                 \* options.loadPaths after setup
  graph,                     \* builder.importFile: relative path -> Buffer
  disk,                      \* sander.readFile: absolute path -> outcome
  writes,                    \* writes to the disk so far
  base,                      \* root of the build graph
  sassOptions,               \* closure variable shared by all builds
  render,                    \* module variable: sass.render was promisified
  pc,                        \* "idle", "compiling" or "done"
  file,                      \* the input file of the current build
  contents,                  \* the Buffer of the current build
  source,                    \* contents.toString()
  outputFile,
  entryFile,                 \* fakeEntryFile / absoluteEntryFile
  rememberedImportContents,
  resolvedImportPaths,
  config,                    \* the object handed to render
  req,                       \* the import request being resolved
  queries,                   \* existence checks of the current request
  responses,                 \* arguments of done() in the current build
  renderCalls,               \* calls of render in the current build
  importerCalls,             \* calls of config.importer in the current build
  caught,                    \* the error render rejected with
  result,                    \* what the build function returned or threw
  gen,                       \* one run of the candidate generator
  setup,                     \* one call of the plugin factory
  flights                    \* the calls of config.importer, each with its
                             \* own arg, prev and done, that may overlap

setupVars == <<variant, loadPaths, gen, setup, flights>>

worldVars == <<graph, disk, writes>>

sharedVars == <<base, sassOptions, render>>

buildVars == <<file, contents, source, outputFile, entryFile, config, renderCalls>>

memoVars == <<rememberedImportContents, resolvedImportPaths>>

importVars == <<req, queries, responses, importerCalls>>

vars == <<setupVars, worldVars, sharedVars, buildVars, memoVars, importVars,
          pc, caught, result>>

EmptyObject == [k \in {} |-> <<>>]

NoReq == [state |-> "none"]

NoResult == [outcome |-> "none"]

NoConfig == [type |-> "undefined"]

NoError == [type |-> "undefined"]

NoGen == [state |-> "none"]

NoSetup == [state |-> "none"]

NoFlights == <<>>

(* -------------------------------- setup ------------------------------- *)

\* loadPaths.map(loadPath => path.resolve(loadPath))
ResolveAll(items) == [i \in 1..Len(items) |-> Str(PathResolve(Cwd, items[i].value))]

\* the value of options.loadPaths after the fallback to the other two names
FallBack(options) ==
  IF ~Truthy(options.loadPaths)
  THEN IF Truthy(options.loadPath) THEN options.loadPath
       ELSE IF Truthy(options.importPaths) THEN options.importPaths
       ELSE options.loadPaths
  ELSE options.loadPaths

\* NormaliseLoadPaths that takes any list and keeps the strings among its
\* entries
NormaliseDropsOthers(options) ==
  LET given == FallBack(options)
  IN  IF Truthy(given)
      THEN IF IsString(given)
           THEN [outcome |-> "return", loadPaths |-> Arr(ResolveAll(<<given>>))]
           ELSE IF ~IsArray(given)
           THEN [outcome |-> "throw",
                 error |-> [type |-> "TypeError",
                            message |-> "trip-sass: Invalid \"loadPaths\" option"]]
           ELSE [outcome |-> "return",
                 loadPaths |-> Arr(ResolveAll(SelectSeq(given.items, IsString)))]
      ELSE [outcome |-> "return", loadPaths |-> given]

\* "normalise the loadPaths option": the plugin factory up to the point
\* where it makes the build function
NormaliseLoadPaths(options) ==
  LET given == FallBack(options)
  IN  IF Truthy(given)
      THEN IF IsString(given)
           THEN [outcome |-> "return", loadPaths |-> Arr(ResolveAll(<<given>>))]
           ELSE IF ~IsArray(given) \/ ~EveryIsString(given.items)
           THEN [outcome |-> "throw",
                 error |-> [type |-> "TypeError",
                            message |-> "trip-sass: Invalid \"loadPaths\" option"]]
           ELSE [outcome |-> "return",
                 loadPaths |-> Arr(ResolveAll(given.items))]
      ELSE [outcome |-> "return", loadPaths |-> given]

\* the directories the importer takes from options.loadPaths:
\* if (options.loadPaths) for (const p of options.loadPaths) loadPaths.push(p)
PushedLoadPaths(value) ==
  IF Truthy(value)
  THEN [i \in 1..Len(value.items) |-> value.items[i].value]
  ELSE <<>>

(* -------------------------- existence resolver ------------------------ *)

\* the read of one full candidate path from the disk
ReadFile(candidate) ==
  IF candidate \notin DOMAIN disk
  THEN [outcome |-> "absent", via |-> "disk", file |-> candidate]
  ELSE IF disk[candidate].code # "OK"
       THEN [outcome |-> "error", via |-> "disk", file |-> candidate,
             code |-> disk[candidate].code]
       ELSE [outcome |-> "hit", via |-> "disk", file |-> candidate,
             contents |-> BufferToString(disk[candidate].buffer)]

\* Check that goes on to the disk for a candidate the build graph lacks
CheckGraphThenDisk(candidate) ==
  IF Subdir(base, candidate) /\ PathRelative(base, candidate) \in DOMAIN graph
  THEN [outcome |-> "hit", via |-> "graph", file |-> candidate,
        contents |-> BufferToString(graph[PathRelative(base, candidate)])]
  ELSE ReadFile(candidate)

\* Check that takes a read failure for a missing file
CheckErrorIsAbsent(candidate) ==
  IF Subdir(base, candidate)
  THEN LET rel == PathRelative(base, candidate)
       IN  IF rel \in DOMAIN graph
           THEN [outcome |-> "hit", via |-> "graph", file |-> candidate,
                 contents |-> BufferToString(graph[rel])]
           ELSE [outcome |-> "absent", via |-> "graph", file |-> candidate]
  ELSE IF ReadFile(candidate).outcome = "error"
       THEN [outcome |-> "absent", via |-> "disk", file |-> candidate]
       ELSE ReadFile(candidate)

\* the check of one full candidate path: through the build graph when the
\* candidate is under the base, otherwise a read of the disk
Check(candidate) ==
  IF Subdir(base, candidate)
  THEN LET rel == PathRelative(base, candidate)
       IN  IF rel \in DOMAIN graph
           THEN [outcome |-> "hit", via |-> "graph", file |-> candidate,
                 contents |-> BufferToString(graph[rel])]
           ELSE [outcome |-> "absent", via |-> "graph", file |-> candidate]
  ELSE ReadFile(candidate)

(* ------------------------------- driver ------------------------------- *)

\* micromatch.filter(options.include) with the default include pattern
included(f) ==
  IF variant = "index"
  THEN EndsWith(f, ".scss")
  ELSE EndsWith(f, ".scss") \/ EndsWith(f, ".sass")

\* file.replace(scssExt, '') + '.css' / file.replace(eitherExtension, '') + '.css'
OutputFileOf(f) ==
  LET strip == IF variant = "index"
               THEN EndsWith(f, ".scss")
               ELSE EndsWith(f, ".scss") \/ EndsWith(f, ".sass")
  IN  (IF strip THEN SubSeq(f, 1, Len(f) - 1) ELSE f) \o <<".css">>

\* Route without the early exit for a blank source
RouteNoBlank(f, c) ==
  IF ~included(f) THEN "skip"
  ELSE IF CharAt0(Basename(f)) = "_" THEN "partial"
  ELSE "compile"

\* Route with the partial marker looked for at the start of the whole path
RouteMarkerOfPath(f, c) ==
  IF ~included(f) THEN "skip"
  ELSE IF CharAt0(f) = "_" THEN "partial"
  ELSE IF BufferToString(c) = <<>> THEN "blank"
  ELSE "compile"

\* Route without the inclusion filter
RouteNoFilter(f, c) ==
  IF CharAt0(Basename(f)) = "_" THEN "partial"
  ELSE IF BufferToString(c) = <<>> THEN "blank"
  ELSE "compile"

\* Route with the partial marker tested ahead of the inclusion filter
RoutePartialFirst(f, c) ==
  IF CharAt0(Basename(f)) = "_" THEN "partial"
  ELSE IF ~included(f) THEN "skip"
  ELSE IF BufferToString(c) = <<>> THEN "blank"
  ELSE "compile"

\* the early returns of the build function, in the order of the code
Route(f, c) ==
  IF ~included(f) THEN "skip"
  ELSE IF CharAt0(Basename(f)) = "_" THEN "partial"
  ELSE IF BufferToString(c) = <<>> THEN "blank"
  ELSE "compile"

\* _.pick(options, permittedOptions) with the default options
PickedOptions == [sourceMap |-> TRUE, outFile |-> Undefined]

\* the state of the plugin right after setup, before any build
InitPlugin ==
  /\ writes = 0
  /\ base = IF variant = "index" THEN FakeBase ELSE Undefined
  /\ sassOptions = [type |-> "undefined"]
  /\ render = FALSE
  /\ pc = "idle"
  /\ file = <<>>
  /\ contents = [type |-> "Buffer", data |-> <<>>]
  /\ source = <<>>
  /\ outputFile = <<>>
  /\ entryFile = <<>>
  /\ rememberedImportContents = EmptyObject
  /\ resolvedImportPaths = EmptyObject
  /\ config = NoConfig
  /\ req = NoReq
  /\ queries = <<>>
  /\ responses = <<>>
  /\ renderCalls = 0
  /\ importerCalls = 0
  /\ caught = NoError
  /\ result = NoResult

Init ==
  /\ variant \in Variants
  /\ loadPaths \in LoadPathOptions
  /\ \E w \in Worlds(loadPaths,
                      IF variant = "part_000" THEN {ShadowedFile} ELSE {}) :
       /\ graph = [rel \in w.g |-> [type |-> "Buffer", data |-> GraphText(rel)]]
       /\ disk = [p \in w.d |->
                    [code |-> IF p \in w.bad THEN "EACCES" ELSE "OK",
                     buffer |-> [type |-> "Buffer", data |-> DiskText(p, "v0")]]]
  /\ gen = NoGen
  /\ setup = NoSetup
  /\ flights = NoFlights
  /\ InitPlugin

\* the build function up to its first yield: one input file enters the
\* generator tripSass(file, contents)
tripSass(f, c) ==
  /\ pc = "idle"
  /\ setup.state \notin {"called", "thrown"}
  /\ base' = IF base = Undefined THEN Src ELSE base
  /\ file' = f
  /\ contents' = c
  /\ req' = NoReq
  /\ queries' = <<>>
  /\ responses' = <<>>
  /\ importerCalls' = 0
  /\ rememberedImportContents' = EmptyObject
  /\ caught' = NoError
  /\ IF Route(f, c) = "skip"
     THEN \* skip irrelevant files
          /\ result' = [outcome |-> "return", value |-> c]
          /\ pc' = "done"
          /\ source' = <<>>
          /\ outputFile' = <<>>
          /\ entryFile' = <<>>
          /\ resolvedImportPaths' = EmptyObject
          /\ config' = NoConfig
          /\ renderCalls' = 0
          /\ UNCHANGED <<sassOptions, render>>
     ELSE IF Route(f, c) = "partial"
     THEN \* block partials
          /\ result' = [outcome |-> "return", value |-> Null]
          /\ pc' = "done"
          /\ source' = <<>>
          /\ outputFile' = <<>>
          /\ entryFile' = <<>>
          /\ resolvedImportPaths' = EmptyObject
          /\ config' = NoConfig
          /\ renderCalls' = 0
          /\ UNCHANGED <<sassOptions, render>>
     ELSE IF Route(f, c) = "blank"
     THEN \* a blank source gives a blank CSS file
          /\ result' = [outcome |-> "return",
                        value |-> [type |-> "object",
                                   entries |-> [k \in {OutputFileOf(f)} |-> <<>>]]]
          /\ pc' = "done"
          /\ source' = BufferToString(c)
          /\ outputFile' = OutputFileOf(f)
          /\ entryFile' = <<>>
          /\ resolvedImportPaths' = EmptyObject
          /\ config' = NoConfig
          /\ renderCalls' = 0
          /\ UNCHANGED <<sassOptions, render>>
     ELSE LET picked == IF sassOptions.type = "undefined"
                        THEN [type |-> "object"] @@ PickedOptions
                        ELSE sassOptions
          IN  /\ source' = BufferToString(c)
              /\ outputFile' = OutputFileOf(f)
              /\ entryFile' = PathResolve(base', f)
              /\ resolvedImportPaths' =
                   IF variant = "index"
                   THEN [k \in {Stdin} |-> PathResolve(base', f)]
                   ELSE EmptyObject
              /\ config' = [type |-> "object", data |-> BufferToString(c),
                            sourceMap |-> picked.sourceMap,
                            outFile |-> picked.outFile]
              /\ sassOptions' =
                   IF picked.sourceMap
                   THEN [picked EXCEPT !.sourceMap = TRUE,
                                       !.outFile = PathResolve(Cwd, OutputFileOf(f))]
                   ELSE picked
              /\ render' = TRUE
              /\ renderCalls' = 1
              /\ result' = NoResult
              /\ pc' = "compiling"
  /\ UNCHANGED <<setupVars, worldVars>>

(* --------------------------- import resolver -------------------------- *)

\* the file the @import statement was met in
ImporterOf(prev) == IF prev = Stdin THEN entryFile ELSE prev

\* SearchList with the configured load paths ahead of the importing file's
\* directory
SearchListLoadPathsFirst(prev) == loadPaths \o <<Dirname(ImporterOf(prev))>>

\* "establish where we're looking": the directories of one request, in order
SearchList(prev) == <<Dirname(ImporterOf(prev))>> \o loadPaths

\* the compiler meets an @import: config.importer(arg, prev, done) runs up to
\* the existence checks of the first load path
importer(arg, prev) ==
  /\ pc = "compiling"
  /\ req.state # "walking"
  /\ importerCalls < MaxImports
  /\ \A i \in 1..Len(responses) : responses[i].value.type = "import"
  /\ prev = Stdin \/ \E i \in 1..Len(responses) : responses[i].value.file = prev
  /\ req' = [state |-> "walking", arg |-> arg, prev |-> prev,
             importer |-> ImporterOf(prev),
             loadPaths |-> SearchList(prev),
             idx |-> 1]
  /\ queries' = <<>>
  /\ importerCalls' = importerCalls + 1
  /\ UNCHANGED <<setupVars, worldVars, sharedVars, buildVars, memoVars,
                 responses, pc, caught, result>>

\* the existence checks of the candidates of the current load path
ChecksAt(r) ==
  LET candidates == FullCandidates(r.loadPaths[r.idx], r.arg)
  IN  [i \in 1..Len(candidates) |-> Check(candidates[i])]

IsHit(check) == check.outcome = "hit"

\* .filter(x => x): the candidates that exist, in candidate order
Existing(checks) == SelectSeq(checks, IsHit)

FilesOf(checks) == [i \in 1..Len(checks) |-> checks[i].file]

\* the entries the checks of load path number idx add to the query log
Logged(checks, idx) ==
  [i \in 1..Len(checks) |-> [dir |-> idx, check |-> checks[i]]]

\* done(value): the answer of the current request reaches the compiler
Answer(value) ==
  /\ responses' = Append(responses, [arg |-> req.arg, prev |-> req.prev,
                                     value |-> value])
  /\ req' = [req EXCEPT !.state = "answered"]

\* Resolved that hands over the name of the file instead of its full path
ResolvedByName(found) ==
  /\ rememberedImportContents' =
       Put(rememberedImportContents, found.file, found.contents)
  /\ resolvedImportPaths' =
       IF variant = "index"
       THEN Put(resolvedImportPaths, req.arg, found.file)
       ELSE resolvedImportPaths
  /\ Answer([type |-> "import", file |-> Basename(found.file),
             contents |-> found.contents])

\* .then(result => ...): the memos are written, then done(result)
Resolved(found) ==
  /\ rememberedImportContents' =
       Put(rememberedImportContents, found.file, found.contents)
  /\ resolvedImportPaths' =
       IF variant = "index"
       THEN Put(resolvedImportPaths, req.arg, found.file)
       ELSE resolvedImportPaths
  /\ Answer([type |-> "import", file |-> found.file,
             contents |-> found.contents])

\* Rejected that notes the specifier in the memo although nothing was found
RejectedAfterNoting(error) ==
  /\ Answer(error)
  /\ resolvedImportPaths' = Put(resolvedImportPaths, req.arg, Undefined)
  /\ UNCHANGED rememberedImportContents

\* .catch(done)
Rejected(error) ==
  /\ Answer(error)
  /\ UNCHANGED memoVars

\* Outcome with a single match accepted in the last load path only
OutcomeKeepsLooking(n, idx, nDirs) ==
  IF n = 0 THEN (IF idx < nDirs THEN "next" ELSE "notFound")
  ELSE IF n > 1 THEN "ambiguous"
  ELSE IF idx < nDirs THEN "next" ELSE "found"

\* Outcome with the first of several matches taken
OutcomeFirstWins(n, idx, nDirs) ==
  IF n = 0 THEN (IF idx < nDirs THEN "next" ELSE "notFound")
  ELSE "found"

\* Outcome that gives up after the first load path without a match
OutcomeStopsEarly(n, idx, nDirs) ==
  IF n = 0 THEN "notFound"
  ELSE IF n > 1 THEN "ambiguous"
  ELSE "found"

\* what the loop does with the number of existing candidates found in load
\* path number idx of nDirs
Outcome(n, idx, nDirs) ==
  IF n = 0 THEN (IF idx < nDirs THEN "next" ELSE "notFound")
  ELSE IF n > 1 THEN "ambiguous"
  ELSE "found"

\* one turn of the loop over the load paths: the candidates of the current
\* load path are checked, and the request is answered unless none exists and
\* a further load path is left
walk ==
  /\ pc = "compiling"
  /\ req.state = "walking"
  /\ LET checks == ChecksAt(req)
         existingCandidates == Existing(checks)
         failed == {i \in 1..Len(checks) : checks[i].outcome = "error"}
         outcome == Outcome(Len(existingCandidates), req.idx, Len(req.loadPaths))
     IN  /\ queries' = queries \o Logged(checks, req.idx)
         /\ IF failed # {}
            THEN \E i \in failed :
                   Rejected([type |-> "IOError", code |-> checks[i].code,
                             file |-> checks[i].file])
            ELSE IF outcome = "next"
            THEN /\ req' = [req EXCEPT !.idx = @ + 1]
                 /\ UNCHANGED <<responses, memoVars>>
            ELSE IF outcome = "notFound"
            THEN Rejected([type |-> "ImportNotFound", arg |-> req.arg])
            ELSE IF outcome = "ambiguous"
            THEN Rejected([type |-> "ImportAmbiguous", arg |-> req.arg,
                           importer |-> req.importer,
                           candidates |-> FilesOf(existingCandidates)])
            ELSE Resolved(existingCandidates[1])
  /\ UNCHANGED <<setupVars, worldVars, sharedVars, buildVars, importerCalls,
                 pc, caught, result>>

(* ------------------------------ compiler ------------------------------ *)

\* the file tokens a compiler failure may carry
FileTokens ==
  {Stdin, ForeignToken}
    \cup {responses[i].value.file :
            i \in {j \in 1..Len(responses) : responses[j].value.type = "import"}}

ImportFailed ==
  \E i \in 1..Len(responses) : responses[i].value.type # "import"

\* render(config) resolves: the build function returns the CSS
renderResolves(css) ==
  /\ pc = "compiling"
  /\ req.state # "walking"
  /\ ~ImportFailed
  /\ result' = [outcome |-> "return",
                value |-> [type |-> "object",
                           entries |-> [k \in {outputFile} |-> css]]]
  /\ pc' = "done"
  /\ UNCHANGED <<setupVars, worldVars, sharedVars, buildVars, memoVars,
                 importVars, caught>>

\* the catch block of src/src/index.js: the raw error is thrown again
RethrownError(error) == error

\* the catch block of src/unnamed/part_000
TranslatedError(error) ==
  [type |-> "CodeError",
   message |-> <<error.message[1]>>,
   file |-> IF error.file = Stdin THEN entryFile ELSE error.file,
   contents |-> IF error.file = Stdin THEN source
                ELSE Get(rememberedImportContents, error.file),
   line |-> error.line,
   column |-> error.column]

\* render(config) rejects: the build function throws
renderRejects(error) ==
  /\ pc = "compiling"
  /\ req.state # "walking"
  /\ error.file \in FileTokens
  /\ ImportFailed => error.file = responses[Len(responses)].prev
  /\ caught' = error
  /\ result' = [outcome |-> "throw",
                error |-> IF variant = "index" THEN RethrownError(error)
                          ELSE TranslatedError(error)]
  /\ pc' = "done"
  /\ UNCHANGED <<setupVars, worldVars, sharedVars, buildVars, memoVars,
                 importVars>>

\* the failures the compiler may report
RawErrors ==
  [type : {"Error"}, message : Messages, file : FileTokens,
   line : {3}, column : {7}]

\* the build function has returned or thrown: the builder takes the outcome
\* and the locals of the generator, the memos among them, are gone
settled ==
  /\ pc = "done"
  /\ pc' = "idle"
  /\ file' = <<>>
  /\ contents' = [type |-> "Buffer", data |-> <<>>]
  /\ source' = <<>>
  /\ outputFile' = <<>>
  /\ entryFile' = <<>>
  /\ rememberedImportContents' = EmptyObject
  /\ resolvedImportPaths' = EmptyObject
  /\ config' = NoConfig
  /\ req' = NoReq
  /\ queries' = <<>>
  /\ responses' = <<>>
  /\ renderCalls' = 0
  /\ importerCalls' = 0
  /\ caught' = NoError
  /\ result' = NoResult
  /\ UNCHANGED <<setupVars, worldVars, sharedVars>>

(* ----------------------------- environment ---------------------------- *)

\* some other process rewrites a readable file on the disk during a compile.
\* Only rewrites of a file this build has already read and remembered are
\* followed: a rewrite before the first read is one more initial text of the
\* file, and the build never sees a rewrite of a file it does not read again
diskWrite(p) ==
  /\ pc = "compiling"
  /\ writes < MaxWrites
  /\ p \in DOMAIN disk \cap DOMAIN rememberedImportContents
  /\ disk[p].code = "OK"
  /\ disk' = [disk EXCEPT ![p].buffer.data = DiskText(p, "v1")]
  /\ writes' = writes + 1
  /\ UNCHANGED <<setupVars, graph, sharedVars, buildVars, memoVars,
                 importVars, pc, caught, result>>

Next ==
  \/ \E f \in Files, c \in Buffers : tripSass(f, c)
  \/ \E arg \in ImportArgs, prev \in FileTokens : importer(arg, prev)
  \/ walk
  \/ \E css \in {<<"css">>} : renderResolves(css)
  \/ \E error \in RawErrors : renderRejects(error)
  \/ settled
  \/ \E p \in DOMAIN disk : diskWrite(p)

Spec == Init /\ [][Next]_vars

(* ------------------ the candidate generator on its own ---------------- *)

\* the parts a specifier is written from: directory part, partial marker,
\* stem and extension
GenParts ==
  [dir : { <<>>, <<"d">>, <<"_", "d">> },
   marker : BOOLEAN,
   stem : { <<"a">> },
   ext : { <<>>, <<".scss">>, <<".sass">>, <<".css">> }]

\* the specifier as written in the @import
Specifier(parts) ==
  (IF parts.dir = <<>> THEN <<>> ELSE parts.dir \o <<"/">>)
    \o (IF parts.marker THEN <<"_">> ELSE <<>>) \o parts.stem \o parts.ext

\* load paths the generator is run for
GenLoadPaths == { FakeBase, LoadDir1, Src \o <<"/", "d">> }

InitGen ==
  /\ variant \in Variants
  /\ loadPaths = <<>>
  /\ graph = EmptyObject
  /\ disk = EmptyObject
  /\ \E parts \in GenParts, loadPath \in GenLoadPaths :
       gen = [state |-> "ready", parts |-> parts, arg |-> Specifier(parts),
              loadPath |-> loadPath, candidates |-> <<>>]
  /\ setup = NoSetup
  /\ flights = NoFlights
  /\ InitPlugin

\* the list of candidates is made for one load path
generate ==
  /\ gen.state = "ready"
  /\ gen' = [gen EXCEPT !.state = "made",
                        !.candidates = FullCandidates(gen.loadPath, gen.arg)]
  /\ UNCHANGED <<variant, loadPaths, setup, flights, worldVars, sharedVars,
                 buildVars, memoVars, importVars, pc, caught, result>>

NextGen == generate

SpecGen == InitGen /\ [][NextGen]_vars

\* the directory a candidate of gen lands in
GenDirectory ==
  gen.loadPath \o <<"/">>
    \o (IF gen.parts.dir = <<>> THEN <<>> ELSE gen.parts.dir \o <<"/">>)

GenRecognized == gen.parts.ext \in { <<".scss">>, <<".sass">> }

\* C4: a specifier whose basename does not start with "_" gives, when it
\* ends in .scss or .sass, exactly the partial sibling with the same extension
\* and then the specifier itself, and otherwise exactly _name.scss, _name.sass,
\* name.scss, name.sass, each under the load path, in that order
C4_CandidatesWithoutMarker ==
  (gen.state = "made" /\ ~gen.parts.marker) =>
    LET name == gen.parts.stem \o gen.parts.ext
    IN  IF GenRecognized
        THEN gen.candidates =
               << GenDirectory \o <<"_">> \o name, GenDirectory \o name >>
        ELSE gen.candidates =
               << GenDirectory \o <<"_">> \o name \o <<".scss">>,
                  GenDirectory \o <<"_">> \o name \o <<".sass">>,
                  GenDirectory \o name \o <<".scss">>,
                  GenDirectory \o name \o <<".sass">> >>

C4_Witness ==
  /\ gen.state = "made"
  /\ ~gen.parts.marker
  /\ gen.parts.dir = <<"_", "d">>
  /\ gen.parts.ext = <<".sass">>
  /\ Len(gen.candidates) = 2

\* C5: a specifier whose basename starts with "_" gives, when it ends in
\* .scss or .sass, exactly the specifier itself under the load path, and
\* otherwise exactly specifier.scss then specifier.sass; no candidate gets a
\* second "_"
C5_CandidatesWithMarker ==
  (gen.state = "made" /\ gen.parts.marker) =>
    LET name == <<"_">> \o gen.parts.stem \o gen.parts.ext
    IN  /\ IF GenRecognized
           THEN gen.candidates = << GenDirectory \o name >>
           ELSE gen.candidates = << GenDirectory \o name \o <<".scss">>,
                                    GenDirectory \o name \o <<".sass">> >>
        /\ \A i \in 1..Len(gen.candidates) :
             LET b == Basename(gen.candidates[i])
             IN  ~(Len(b) >= 2 /\ b[1] = "_" /\ b[2] = "_")

C5_Witness ==
  /\ gen.state = "made"
  /\ gen.parts.marker
  /\ gen.parts.dir = <<"d">>
  /\ gen.parts.ext = <<>>
  /\ Len(gen.candidates) = 2

(* ------------------------- the plugin factory ------------------------- *)

\* values the load path option is given under its first name
LoadPathsValues ==
  { NotGiven, Null, Num(0), Num(7), Str(<<>>), Str(LoadDir1), Str(<<"rel">>),
    Arr(<<>>), Arr(<< Str(LoadDir1), Str(<<"rel">>) >>),
    Arr(<< Str(LoadDir1), Num(7) >>), PlainObject, Bool(FALSE) }

\* the options objects the factory is called with
OptionsGiven ==
  [loadPaths : LoadPathsValues,
   loadPath : { NotGiven, Str(LoadDir2), Num(7) },
   importPaths : { NotGiven, Arr(<< Str(LoadDir2) >>), PlainObject }]

\* the disk of the factory runs: one stylesheet in each directory a load
\* path option may name
SetupDisk ==
  { PathResolve(LoadDir1, <<"a", ".scss">>),
    PathResolve(LoadDir2, <<"a", ".scss">>),
    PathResolve(PathResolve(Cwd, <<"rel">>), <<"a", ".scss">>) }

InitSetup ==
  /\ variant \in Variants
  /\ loadPaths = <<>>
  /\ graph = EmptyObject
  /\ disk = [p \in SetupDisk |->
               [code |-> "OK",
                buffer |-> [type |-> "Buffer", data |-> DiskText(p, "v0")]]]
  /\ gen = NoGen
  /\ setup = [state |-> "called"]
  /\ flights = NoFlights
  /\ InitPlugin

\* the default export is called with an options object: it throws, or it
\* returns the build function
exportDefault(options) ==
  /\ setup.state = "called"
  /\ LET normalised == NormaliseLoadPaths(options)
     IN  IF normalised.outcome = "throw"
         THEN /\ setup' = [state |-> "thrown", options |-> options,
                           error |-> normalised.error]
              /\ loadPaths' = <<>>
         ELSE /\ setup' = [state |-> "returned", options |-> options,
                           loadPaths |-> normalised.loadPaths]
              /\ loadPaths' = PushedLoadPaths(normalised.loadPaths)
  /\ UNCHANGED <<variant, gen, flights, worldVars, sharedVars, buildVars,
                 memoVars, importVars, pc, caught, result>>

NextSetup ==
  \/ \E options \in OptionsGiven : exportDefault(options)
  \/ Next

SpecSetup == InitSetup /\ [][NextSetup]_vars

\* the first of the three option names that was given a value at all
FirstGiven(options) ==
  IF options.loadPaths # NotGiven THEN options.loadPaths
  ELSE IF options.loadPath # NotGiven THEN options.loadPath
  ELSE options.importPaths

\* the first of the three option names whose value counts as true
FirstTruthy(options) ==
  IF Truthy(options.loadPaths) THEN options.loadPaths
  ELSE IF Truthy(options.loadPath) THEN options.loadPath
  ELSE IF Truthy(options.importPaths) THEN options.importPaths
  ELSE NotGiven

IsListOfStrings(v) == IsArray(v) /\ EveryIsString(v.items)

\* the entries of a string or list-of-strings value, each made absolute
AbsoluteEntries(v) ==
  LET entries == IF IsString(v) THEN <<v>> ELSE v.items
  IN  [i \in 1..Len(entries) |->
         IF IsAbsolute(entries[i].value) THEN entries[i].value
         ELSE Cwd \o <<"/">> \o entries[i].value]

\* no build has started: nothing was handed to the build function
NoFileProcessed ==
  /\ pc = "idle"
  /\ file = <<>>
  /\ result = NoResult
  /\ renderCalls = 0
  /\ importerCalls = 0
  /\ sassOptions = [type |-> "undefined"]

SetupFailed ==
  /\ setup.state = "thrown"
  /\ setup.error.type = "TypeError"
  /\ NoFileProcessed

SetupSucceededWith(dirs) ==
  /\ setup.state = "returned"
  /\ loadPaths = dirs
  /\ \A i \in 1..Len(loadPaths) : IsAbsolute(loadPaths[i])

\* C11 as stated: whatever value the first given option name has decides
C11_AsStated ==
  setup.state \in {"returned", "thrown"} =>
    LET v == FirstGiven(setup.options)
    IN  IF v = NotGiven THEN SetupSucceededWith(<<>>)
        ELSE IF IsString(v) \/ IsListOfStrings(v)
        THEN SetupSucceededWith(AbsoluteEntries(v))
        ELSE SetupFailed

\* C11: when the first of loadPaths, loadPath, importPaths whose value counts
\* as true is neither a string nor a list of strings, setup throws the
\* invalid-option error and no file is ever processed; when it is a string or
\* a list of strings setup succeeds and the load paths are its entries, each
\* made absolute, in order, for every build; when none counts as true setup
\* succeeds with no load path
C11_SetupValidatesLoadPaths ==
  setup.state \in {"returned", "thrown"} =>
    LET v == FirstTruthy(setup.options)
    IN  IF v = NotGiven THEN SetupSucceededWith(<<>>)
        ELSE IF IsString(v) \/ IsListOfStrings(v)
        THEN SetupSucceededWith(AbsoluteEntries(v))
        ELSE SetupFailed

C11_Witness ==
  /\ setup.state = "thrown"
  /\ setup.options.loadPaths = Arr(<< Str(LoadDir1), Num(7) >>)
  /\ setup.options.loadPath = Str(LoadDir2)

\* a relative load path was made absolute and an import was found under it
C11_RelativeLoadPathUsed ==
  /\ setup.state = "returned"
  /\ setup.options.loadPaths = Str(<<"rel">>)
  /\ Len(responses) > 0
  /\ responses[1].value.type = "import"
  /\ responses[1].value.file
       = Cwd \o <<"/", "rel", "/", "a", ".scss">>

(* --------------------------- the load path walk ----------------------- *)

\* the answer the current request got
LastResponse == responses[Len(responses)]

\* the candidate is there: the resolver does not report it as missing
Present(candidate) == Check(candidate).outcome # "absent"

\* the candidate is there and can be read
Readable(candidate) == Check(candidate).outcome = "hit"

\* the candidates of request r that are there in its k-th directory, in
\* candidate order
PresentFiles(r, k) == SelectSeq(FullCandidates(r.loadPaths[k], r.arg), Present)

\* the first directory of request r, from the k-th on, in which a candidate
\* is there, 0 if none
RECURSIVE FirstDirFrom(_, _)
FirstDirFrom(r, k) ==
  IF k > Len(r.loadPaths) THEN 0
  ELSE IF PresentFiles(r, k) # <<>> THEN k
  ELSE FirstDirFrom(r, k + 1)

\* the first directory of request r in which a candidate is there, 0 if none
FirstDir(r) == FirstDirFrom(r, 1)

\* the file the @import of request r stands in
ImportingFile(r) == IF r.prev = Stdin THEN entryFile ELSE r.prev

\* no existence check was made for a directory after the k-th
NothingQueriedAfter(k) == \A i \in 1..Len(queries) : queries[i].dir <= k

\* the answer is the resolved import {path, contents} of this file, with the
\* contents the resolver returned for it in directory k
AnsweredWith(path, k) ==
  /\ LastResponse.value.type = "import"
  /\ LastResponse.value.file = path
  /\ \E i \in 1..Len(queries) :
       /\ queries[i].dir = k
       /\ queries[i].check.outcome = "hit"
       /\ queries[i].check.file = path
       /\ queries[i].check.contents = LastResponse.value.contents

\* C1 as stated: if directory k is the first in which a candidate exists and
\* exactly one exists there, the request is answered with that candidate and
\* no directory after k is queried
C1_AsStated ==
  req.state = "answered" =>
    LET k == FirstDir(req)
        found == IF k > 0 THEN PresentFiles(req, k) ELSE <<>>
    IN  Len(found) = 1 =>
          /\ AnsweredWith(found[1], k)
          /\ NothingQueriedAfter(k)

\* C1: if directory k is the first in which a candidate exists, exactly one
\* exists there and it can be read, the request is answered with that
\* candidate's path and contents, and no directory after k is queried, also
\* when a later directory holds a match
C1_SingleMatchStopsWalk ==
  req.state \in {"walking", "answered"} =>
    LET k == FirstDir(req)
        found == IF k > 0 THEN PresentFiles(req, k) ELSE <<>>
    IN  (Len(found) = 1 /\ Readable(found[1])) =>
          /\ NothingQueriedAfter(k)
          /\ req.state = "answered" => AnsweredWith(found[1], k)

C1_Witness ==
  /\ req.state = "answered"
  /\ Len(req.loadPaths) = 3
  /\ FirstDir(req) = 2
  /\ Len(PresentFiles(req, 2)) = 1
  /\ Len(PresentFiles(req, 3)) = 1
  /\ Readable(PresentFiles(req, 3)[1])
  /\ LastResponse.value.type = "import"
  /\ LastResponse.value.file = PresentFiles(req, 2)[1]

\* the answer is the ambiguity error for exactly these files
AmbiguousOver(files) ==
  /\ LastResponse.value.type = "ImportAmbiguous"
  /\ LastResponse.value.candidates = files
  /\ LastResponse.value.importer = ImportingFile(req)
  /\ LastResponse.value.arg = req.arg

\* C2 as stated: if the first directory in which a candidate exists holds two
\* or more, the request fails with the ambiguity error listing exactly those
\* candidates, and no directory after it is queried
C2_AsStated ==
  req.state = "answered" =>
    LET k == FirstDir(req)
        found == IF k > 0 THEN PresentFiles(req, k) ELSE <<>>
    IN  Len(found) >= 2 =>
          /\ AmbiguousOver(found)
          /\ NothingQueriedAfter(k)

\* C2: if the first directory in which a candidate exists holds two or more
\* and all of them can be read, the request fails with the ambiguity error
\* that lists exactly those candidates and names the importing file and the
\* specifier; none of them is delivered and no directory after it is queried,
\* also when a later directory holds a single match
C2_AmbiguityIsHardStop ==
  req.state \in {"walking", "answered"} =>
    LET k == FirstDir(req)
        found == IF k > 0 THEN PresentFiles(req, k) ELSE <<>>
    IN  (Len(found) >= 2 /\ \A i \in 1..Len(found) : Readable(found[i])) =>
          /\ NothingQueriedAfter(k)
          /\ req.state = "answered" => AmbiguousOver(found)

C2_Witness ==
  /\ req.state = "answered"
  /\ Len(req.loadPaths) = 3
  /\ FirstDir(req) = 2
  /\ Len(PresentFiles(req, 2)) = 2
  /\ Len(PresentFiles(req, 3)) = 1
  /\ Readable(PresentFiles(req, 3)[1])
  /\ LastResponse.value.type = "ImportAmbiguous"

\* every directory of the request was queried, in order
AllQueriedInOrder ==
  /\ {queries[i].dir : i \in 1..Len(queries)} = 1..Len(req.loadPaths)
  /\ \A i, j \in 1..Len(queries) : i <= j => queries[i].dir <= queries[j].dir

\* C3: a request fails with the not-found error naming the specifier exactly
\* when no directory of its search list holds a candidate; every directory
\* was then checked in order, and the error goes to the compiler through the
\* callback: the build function does not throw it itself
C3_NotFoundIffNoCandidate ==
  req.state = "answered" =>
    LET notFound == LastResponse.value.type = "ImportNotFound"
    IN  /\ notFound <=> FirstDir(req) = 0
        /\ notFound =>
             /\ LastResponse.value.arg = req.arg
             /\ AllQueriedInOrder
             /\ pc = "compiling" => result = NoResult
             /\ result.outcome = "throw" =>
                  result.error.type \in {"Error", "CodeError"}

C3_Witness ==
  /\ req.state = "answered"
  /\ Len(req.loadPaths) = 3
  /\ LastResponse.value.type = "ImportNotFound"
  /\ DOMAIN disk # {}
  /\ pc = "done"

\* the request at hand was issued from a file an earlier request resolved
IssuedFromResolvedFile ==
  \E i \in 1..Len(responses) :
    /\ responses[i].value.type = "import"
    /\ responses[i].value.file = req.prev
    /\ IsAbsolute(req.prev)

\* every existence check made so far is a candidate of the specifier under
\* the directory of the search list it is logged for
QueriesFollow(list) ==
  \A i \in 1..Len(queries) :
    /\ queries[i].dir \in 1..Len(list)
    /\ \E j \in 1..Len(Candidates(req.arg)) :
         queries[i].check.file
           = PathResolve(list[queries[i].dir], Candidates(req.arg)[j])

\* C12: the search list of a request is the directory of the file the
\* import occurs in, then the configured load paths in configuration order;
\* that file is the entry file under the root of the build when the compiler
\* names the entry, and otherwise the path an earlier request resolved; the
\* existence checks are made in the directories of that list
C12_SearchListOrder ==
  req.state \in {"walking", "answered"} =>
    LET importing == IF req.prev = Stdin THEN base \o <<"/">> \o file
                     ELSE req.prev
        expected == <<Dirname(importing)>> \o loadPaths
    IN  /\ req.prev # Stdin => IssuedFromResolvedFile
        /\ req.loadPaths = expected
        /\ QueriesFollow(expected)

\* a nested import, issued from a file found under the first load path, is
\* looked up in the directory of that file ahead of the two load paths, and
\* answered from there
C12_Witness ==
  /\ req.state = "answered"
  /\ req.prev = LoadDir1 \o <<"/", "a", ".scss">>
  /\ loadPaths = <<LoadDir1, LoadDir2>>
  /\ req.loadPaths = <<LoadDir1, LoadDir1, LoadDir2>>
  /\ queries # <<>>
  /\ LastResponse.value.type = "import"
  /\ Dirname(LastResponse.value.file) = LoadDir1

(* ------------------------------ the driver ---------------------------- *)

\* the basename of the current input file starts with the partial marker
IsPartialFile == CharAt0(Basename(file)) = "_"

\* the input file name with its extension replaced by .css
CssNameOf(f) == SubSeq(f, 1, Len(f) - 1) \o <<".css">>

\* nothing of the compile machinery ran in this build
NothingInvoked ==
  /\ renderCalls = 0
  /\ importerCalls = 0
  /\ queries = <<>>
  /\ responses = <<>>

\* C6: an entry file (included, not a partial) with empty source gives the
\* mapping {outputFile: ""}, outputFile being the input name with .css for
\* its extension, and neither the compiler nor the importer is called
C6_BlankSourceShortCircuit ==
  (pc = "done" /\ included(file) /\ ~IsPartialFile
     /\ BufferToString(contents) = <<>>) =>
    /\ result.outcome = "return"
    /\ result.value.type = "object"
    /\ result.value.entries = [k \in {CssNameOf(file)} |-> <<>>]
    /\ NothingInvoked

C6_Witness ==
  /\ pc = "done"
  /\ variant = "part_000"
  /\ file = <<"m", ".sass">>
  /\ BufferToString(contents) = <<>>
  /\ result.outcome = "return"
  /\ result.value.type = "object"
  /\ DOMAIN result.value.entries = {<<"m", ".css">>}

\* C7 as stated: every input file whose basename starts with "_" gives no
\* output entry, neither empty nor passed through, and the compiler is not
\* called
C7_AsStated ==
  (pc = "done" /\ IsPartialFile) =>
    /\ result = [outcome |-> "return", value |-> Null]
    /\ renderCalls = 0

\* C7: every input file that passes the inclusion filter and whose basename
\* starts with "_" gives no output entry (the build function returns null,
\* not an empty or passed-through content) and the compiler is not called
C7_PartialGivesNoOutput ==
  (pc = "done" /\ included(file) /\ IsPartialFile) =>
    /\ result = [outcome |-> "return", value |-> Null]
    /\ renderCalls = 0

C7_Witness ==
  /\ pc = "done"
  /\ file = <<"d", "/", "_", "p", ".sass">>
  /\ BufferToString(contents) # <<>>
  /\ result = [outcome |-> "return", value |-> Null]

\* C8: an input file the inclusion filter excludes is answered with exactly
\* the contents handed in, with no compiler call, no import resolution and
\* no memo written
C8_ExcludedPassesThrough ==
  (pc = "done" /\ ~included(file)) =>
    /\ result = [outcome |-> "return", value |-> contents]
    /\ NothingInvoked
    /\ config = NoConfig
    /\ rememberedImportContents = EmptyObject
    /\ resolvedImportPaths = EmptyObject

C8_Witness ==
  /\ pc = "done"
  /\ file = <<"_", "n", ".txt">>
  /\ BufferToString(contents) = <<"body">>
  /\ result.outcome = "return"
  /\ result.value = contents
  /\ sassOptions.type = "object"

\* the ways a build of one file ends that hold of the finished build
EndsAs ==
  { end \in {"Skipped", "Ignored", "EmptyShortCircuit", "Emitted", "Failed"} :
      CASE end = "Skipped" ->
             result = [outcome |-> "return", value |-> contents]
        [] end = "Ignored" ->
             result = [outcome |-> "return", value |-> Null]
        [] end = "EmptyShortCircuit" ->
             /\ result.outcome = "return"
             /\ result.value.type = "object"
             /\ renderCalls = 0
             /\ \A k \in DOMAIN result.value.entries :
                  result.value.entries[k] = <<>>
        [] end = "Emitted" ->
             /\ result.outcome = "return"
             /\ result.value.type = "object"
             /\ renderCalls = 1
        [] end = "Failed" ->
             /\ result.outcome = "throw"
             /\ renderCalls = 1 }

\* C19: the inclusion filter is decided first, then the partial marker, then
\* the empty source, then the compile: an excluded file is passed through
\* whatever its name and content, an included partial gives no output
\* whatever its content, an included entry with empty source gives the empty
\* output, any other file is compiled, and a finished build ended in exactly
\* one of the five ways
C19_DriverPriorityOrder ==
  pc = "done" =>
    /\ Cardinality(EndsAs) = 1
    /\ IF ~included(file) THEN EndsAs = {"Skipped"}
       ELSE IF IsPartialFile THEN EndsAs = {"Ignored"}
       ELSE IF BufferToString(contents) = <<>> THEN EndsAs = {"EmptyShortCircuit"}
       ELSE EndsAs \subseteq {"Emitted", "Failed"}

\* an included partial with empty content gave no output
C19_Witness ==
  /\ pc = "done"
  /\ file = <<"_", "p", ".scss">>
  /\ BufferToString(contents) = <<>>
  /\ EndsAs = {"Ignored"}

\* an excluded file with the partial marker and empty content was passed
\* through
C19_ExcludedPartialPassedThrough ==
  /\ pc = "done"
  /\ file = <<"_", "n", ".txt">>
  /\ BufferToString(contents) = <<>>
  /\ EndsAs = {"Skipped"}

(* --------------------------- the resolver ----------------------------- *)

\* the texts the disk may have held for a file
DiskTexts(path) == {DiskText(path, "v0"), DiskText(path, "v1")}

\* the answer of a check that was decided by the build graph alone
DecidedByGraph(check) ==
  LET rel == SubSeq(check.file, Len(base) + 2, Len(check.file))
  IN  /\ check.via = "graph"
      /\ check.outcome \in {"hit", "absent"}
      /\ check.outcome = "hit" <=> rel \in DOMAIN graph
      /\ check.outcome = "hit" => check.contents = graph[rel].data

\* the answer of a check that was decided by a read of the disk alone
DecidedByDisk(check) ==
  /\ check.via = "disk"
  /\ check.outcome = "absent" <=> check.file \notin DOMAIN disk
  /\ check.outcome = "error" <=>
       (check.file \in DOMAIN disk /\ disk[check.file].code # "OK")
  /\ check.outcome = "hit" => check.contents \in DiskTexts(check.file)

\* C14: a candidate under the root of the build graph is decided by the
\* graph lookup on its path relative to the root and the disk is not read
\* for it; a candidate outside the root is decided by a read of the disk and
\* the graph is not asked
C14_ResolverRouting ==
  \A i \in 1..Len(queries) :
    IF IsPrefix(base \o <<"/">>, queries[i].check.file)
    THEN DecidedByGraph(queries[i].check)
    ELSE DecidedByDisk(queries[i].check)

\* a file that lies on the disk under the root but is not in the graph was
\* reported absent, and a file of a load path was read from the disk
C14_Witness ==
  /\ ShadowedFile \in DOMAIN disk
  /\ \E i \in 1..Len(queries) :
       /\ queries[i].check.file = ShadowedFile
       /\ queries[i].check.outcome = "absent"
  /\ \E i \in 1..Len(queries) :
       /\ queries[i].check.via = "disk"
       /\ queries[i].check.outcome = "hit"

\* the file is on the disk and a read of it fails
Unreadable(path) == path \in DOMAIN disk /\ disk[path].code # "OK"

\* the request failed with the error of a failed read in directory k
FailedWithReadErrorOf(k) ==
  /\ req.state = "answered"
  /\ LastResponse.value.type = "IOError"
  /\ \E j \in 1..Len(queries) :
       /\ queries[j].dir = k
       /\ queries[j].check.file = LastResponse.value.file
       /\ Unreadable(LastResponse.value.file)
       /\ LastResponse.value.code = disk[LastResponse.value.file].code

\* no candidate was checked twice for the request at hand
NothingRetried ==
  \A i, j \in 1..Len(queries) :
    queries[i].check.file = queries[j].check.file => i = j

\* C15: a disk read that finds no file makes the candidate absent and is
\* never the failure of the request; a disk read that fails otherwise fails
\* the request with that error, whatever else its directory holds: no later
\* directory is checked, no import is delivered for the request, no
\* candidate is read again, and the compile ends with a throw
C15_ReadErrorsAreFatal ==
  \A i \in 1..Len(queries) :
    LET check == queries[i].check
    IN  check.via = "disk" =>
          /\ check.file \notin DOMAIN disk =>
                /\ check.outcome = "absent"
                /\ (req.state = "answered" /\ LastResponse.value.type = "IOError")
                     => LastResponse.value.file # check.file
          /\ Unreadable(check.file) =>
                /\ check.outcome = "error"
                /\ FailedWithReadErrorOf(queries[i].dir)
                /\ NothingQueriedAfter(queries[i].dir)
                /\ NothingRetried
                /\ pc = "done" => result.outcome = "throw"
                /\ pc \in {"compiling", "done"}

\* an unreadable candidate next to a readable one: the request failed with
\* the read error, a load path was left unchecked and the compile threw
C15_Witness ==
  /\ pc = "done"
  /\ result.outcome = "throw"
  /\ req.state = "answered"
  /\ LastResponse.value.type = "IOError"
  /\ Len(req.loadPaths) = 3
  /\ \E i, j \in 1..Len(queries) :
       /\ queries[i].dir = 2
       /\ queries[j].dir = 2
       /\ queries[i].check.outcome = "error"
       /\ queries[j].check.outcome = "hit"

(* ------------------------------ the memos ----------------------------- *)

\* the memo holds nothing but files this compile was answered with
MemoOfThisCompile ==
  \A p \in DOMAIN rememberedImportContents :
    \E i \in 1..Len(responses) :
      /\ responses[i].value.type = "import"
      /\ responses[i].value.file = p

\* the request at hand was answered with a resolved import
Delivered ==
  /\ req.state = "answered"
  /\ LastResponse.value.type = "import"

\* the resolved path of the answer maps to the contents of the answer
ContentsRecorded ==
  /\ LastResponse.value.file \in DOMAIN rememberedImportContents
  /\ rememberedImportContents[LastResponse.value.file]
       = LastResponse.value.contents

\* the specifier of the answer maps to the resolved path of the answer
SpecifierRecorded ==
  /\ req.arg \in DOMAIN resolvedImportPaths
  /\ resolvedImportPaths[req.arg] = LastResponse.value.file

\* C16: when a resolved import has been handed to the compiler, the memo of
\* the compile maps the specifier to the resolved path and the resolved path
\* to the resolved contents, and holds nothing but resolutions of this compile
C16_ResolutionsRecorded ==
  /\ Delivered => (ContentsRecorded /\ SpecifierRecorded)
  /\ MemoOfThisCompile

\* the part of C16 that both revisions keep: resolved path to contents
C16_ContentsRecorded ==
  /\ Delivered => ContentsRecorded
  /\ (Delivered /\ variant = "index") => SpecifierRecorded
  /\ MemoOfThisCompile

\* within a compile no key leaves the memo of contents
C16_AppendOnly ==
  [][pc = "compiling" =>
       DOMAIN rememberedImportContents \subseteq DOMAIN rememberedImportContents']_vars

\* a file was imported twice and the disk changed in between: the memo holds
\* the contents of the second answer
C16_LastWriteWins ==
  /\ Delivered
  /\ Len(responses) = 2
  /\ responses[1].value.type = "import"
  /\ responses[1].value.file = responses[2].value.file
  /\ responses[1].value.contents # responses[2].value.contents
  /\ rememberedImportContents[responses[2].value.file]
       = responses[2].value.contents

\* the resolver confirmed the file for the request at hand, with these
\* contents
Confirmed(path, text) ==
  \E i \in 1..Len(queries) :
    /\ queries[i].check.file = path
    /\ queries[i].check.outcome = "hit"
    /\ queries[i].check.contents = text
    /\ \E j \in 1..Len(Candidates(req.arg)) :
         path = PathResolve(req.loadPaths[queries[i].dir], Candidates(req.arg)[j])

\* C17: every resolved import handed to the compiler has an absolute path
\* that a graph lookup or a disk read of the same request found to exist,
\* and the contents that lookup or read returned
C17_DeliveredWasConfirmed ==
  /\ \A i \in 1..Len(responses) :
       responses[i].value.type = "import" => IsAbsolute(responses[i].value.file)
  /\ Delivered =>
       Confirmed(LastResponse.value.file, LastResponse.value.contents)

\* an import delivered from the disk after candidates ahead of it were
\* found missing
C17_Witness ==
  /\ Delivered
  /\ \E i \in 1..Len(queries) :
       /\ queries[i].check.file = LastResponse.value.file
       /\ queries[i].check.via = "disk"
  /\ \E i \in 1..Len(queries) : queries[i].check.outcome = "absent"

\* this step hands an error to the callback of the request at hand
AnswersWithError ==
  /\ Len(responses') = Len(responses) + 1
  /\ responses'[Len(responses')].value.type # "import"

\* C20: a step that ends a resolution with an error (not found, ambiguous, or
\* a read error) leaves both memos as they were: no specifier and no path is
\* added, not even for the candidates found in an ambiguous directory
C20_FailedResolutionLeavesMemo ==
  [][AnswersWithError =>
       /\ rememberedImportContents' = rememberedImportContents
       /\ resolvedImportPaths' = resolvedImportPaths]_vars

\* a request failed as ambiguous and the candidates that were found to exist
\* are in no memo
C20_Witness ==
  /\ req.state = "answered"
  /\ LastResponse.value.type = "ImportAmbiguous"
  /\ Len(LastResponse.value.candidates) = 2
  /\ \A i \in 1..2 :
       LastResponse.value.candidates[i] \notin DOMAIN rememberedImportContents
  /\ req.arg \notin DOMAIN resolvedImportPaths

(* ------------------------ state across compiles ---------------------- *)

\* the configuration a builder that has compiled nothing before hands to the
\* compiler for the source at hand
ConfigCompiledAlone ==
  [type |-> "object", data |-> source,
   sourceMap |-> PickedOptions.sourceMap, outFile |-> PickedOptions.outFile]

\* C13: a compile gets the configuration, the output-file setting included,
\* that it would get if it were the only compile of the builder, and reads
\* nothing another compile wrote
C13_NoSharedMutableState ==
  pc = "compiling" =>
    /\ config = ConfigCompiledAlone
    /\ MemoOfThisCompile

\* the memo part of C13 on its own
C13_MemoNotShared == pc = "compiling" => MemoOfThisCompile

\* a later compile is handed the output file of an earlier one
C13_StaleOutFile ==
  /\ pc = "compiling"
  /\ config.outFile # Undefined
  /\ config.outFile = Cwd \o <<"/">> \o outputFile

(* ------------------------- compile failures --------------------------- *)

\* error[name] of a thrown error
Field(error, name) == IF name \in DOMAIN error THEN error[name] ELSE Undefined

\* the paths resolved in this build
ResolvedPaths ==
  {responses[i].value.file :
     i \in {j \in 1..Len(responses) : responses[j].value.type = "import"}}

\* the text the resolver returned when this path was last resolved
TextAtResolution(path) ==
  LET is == {i \in 1..Len(responses) :
               /\ responses[i].value.type = "import"
               /\ responses[i].value.file = path}
      last == CHOOSE i \in is : \A j \in is : j <= i
  IN  responses[last].value.contents

\* the thrown error carries the text of the file the failure points at
CarriesFileText ==
  /\ caught.file = Stdin =>
       /\ Field(result.error, "contents") = source
       /\ Field(result.error, "file") = PathResolve(base, file)
  /\ caught.file \in ResolvedPaths =>
       Field(result.error, "contents") = TextAtResolution(caught.file)

\* C9: when the compiler fails, the error the build throws has as contents
\* the text of the file the failure's file token names: the text remembered
\* when that import was resolved, or, for the entry file, the entry's own
\* source together with the entry's absolute path as file
C9_ErrorCarriesFileText ==
  (pc = "done" /\ result.outcome = "throw") => CarriesFileText

\* what C9 asks for holds in the revision that translates the failure
C9_InTranslatingRevision ==
  (pc = "done" /\ result.outcome = "throw" /\ variant = "part_000") =>
    CarriesFileText

C9_RememberedTextNotReread ==
  /\ pc = "done"
  /\ variant = "part_000"
  /\ result.outcome = "throw"
  /\ caught.file \in DOMAIN disk
  /\ caught.file \in ResolvedPaths
  /\ result.error.contents # BufferToString(disk[caught.file].buffer)

\* the placeholder for a file the build knows nothing about
UnknownFile(token) == <<"unknown(">> \o token \o <<")">>

\* C10: when the failure's file token is neither the entry file nor a path
\* with a memo, the build still throws a structured error, and its file is
\* the "unknown file" placeholder, not the raw token
C10_UnknownFilePlaceholder ==
  (pc = "done" /\ result.outcome = "throw"
     /\ caught.file # Stdin
     /\ caught.file \notin DOMAIN rememberedImportContents) =>
    /\ result.error.type = "CodeError"
    /\ Field(result.error, "file") = UnknownFile(caught.file)

(* ------------------------ overlapping requests ------------------------ *)

\* specifiers of the requests that may overlap
OverlapArgs == { <<"a">>, <<"_", "a">> }

\* the worlds of the compiles whose requests may overlap: any files in the
\* build graph and, on the disk, nothing or one file of the load path that
\* cannot be read
OverlapWorlds ==
  { w \in [g : SUBSET GraphUniverse,
           d : SUBSET {PathResolve(LoadDir1, <<"a", ".scss">>)},
           bad : SUBSET {PathResolve(LoadDir1, <<"a", ".scss">>)}] :
      w.bad = w.d }

\* the files earlier calls of this compile have handed to the compiler
HandedOver ==
  {flights[r].answers[1].file :
     r \in {q \in 1..Len(flights) :
              /\ flights[q].answers # <<>>
              /\ flights[q].answers[1].type = "import"}}

\* Done that drops an error instead of passing it to the callback
DoneDropsErrors(answers, value) ==
  IF value.type = "import" THEN Append(answers, value) ELSE answers

\* done(value) of one call: the callback of that call gets the value
Done(answers, value) == Append(answers, value)

InitOverlap ==
  /\ variant \in Variants
  /\ loadPaths = <<LoadDir1>>
  /\ \E w \in OverlapWorlds :
       /\ graph = [rel \in w.g |-> [type |-> "Buffer", data |-> GraphText(rel)]]
       /\ disk = [p \in w.d |->
                    [code |-> IF p \in w.bad THEN "EACCES" ELSE "OK",
                     buffer |-> [type |-> "Buffer", data |-> DiskText(p, "v0")]]]
  /\ gen = NoGen
  /\ setup = NoSetup
  /\ flights = NoFlights
  /\ InitPlugin

\* config.importer(arg, prev, done) is called, maybe while earlier calls are
\* still looking: the call gets its own arg, prev, search list and callback
issue(arg, prev) ==
  /\ pc = "compiling"
  /\ Len(flights) < MaxOverlap
  /\ prev = Stdin \/ prev \in HandedOver
  /\ flights' = Append(flights,
                  [state |-> "walking", arg |-> arg, prev |-> prev,
                   importer |-> ImporterOf(prev),
                   loadPaths |-> SearchList(prev),
                   idx |-> 1,
                   answers |-> <<>>,
                   during |-> {r \in 1..Len(flights) :
                                 flights[r].state = "walking"}])
  /\ UNCHANGED <<variant, loadPaths, gen, setup, worldVars, sharedVars,
                 buildVars, memoVars, importVars, pc, caught, result>>

\* what the loop over the load paths does for a call once the candidates of
\* its current load path have been checked: it goes on to the next load
\* path, or it ends the call with a value for the callback
TurnAfter(call, checks) ==
  LET existingCandidates == Existing(checks)
      failed == {i \in 1..Len(checks) : checks[i].outcome = "error"}
      outcome == Outcome(Len(existingCandidates), call.idx, Len(call.loadPaths))
  IN  IF failed # {}
      THEN {[kind |-> "answer",
             value |-> [type |-> "IOError", code |-> checks[i].code,
                        file |-> checks[i].file]] : i \in failed}
      ELSE IF outcome = "next"
      THEN {[kind |-> "next"]}
      ELSE IF outcome = "notFound"
      THEN {[kind |-> "answer",
             value |-> [type |-> "ImportNotFound", arg |-> call.arg]]}
      ELSE IF outcome = "ambiguous"
      THEN {[kind |-> "answer",
             value |-> [type |-> "ImportAmbiguous", arg |-> call.arg,
                        importer |-> call.importer,
                        candidates |-> FilesOf(existingCandidates)]]}
      ELSE {[kind |-> "answer",
             value |-> [type |-> "import",
                        file |-> existingCandidates[1].file,
                        contents |-> existingCandidates[1].contents]]}

\* one turn of the loop over the load paths for a call: the candidates of
\* its current load path are checked, once, and the loop acts on the checks
Turn(call) == UNION {TurnAfter(call, checks) : checks \in {ChecksAt(call)}}

\* one turn of the loop over the load paths for call number r; a resolved
\* import is written to the memos before the callback gets it
step(r) ==
  /\ pc = "compiling"
  /\ r \in 1..Len(flights)
  /\ flights[r].state = "walking"
  /\ \E turn \in Turn(flights[r]) :
       IF turn.kind = "next"
       THEN /\ flights' = [flights EXCEPT ![r].idx = @ + 1]
            /\ UNCHANGED memoVars
       ELSE /\ flights' = [flights EXCEPT ![r].state = "settled",
                                          ![r].answers = Done(@, turn.value)]
            /\ IF turn.value.type = "import"
               THEN /\ rememberedImportContents' =
                         Put(rememberedImportContents, turn.value.file,
                             turn.value.contents)
                    /\ resolvedImportPaths' =
                         IF variant = "index"
                         THEN Put(resolvedImportPaths, flights[r].arg,
                                  turn.value.file)
                         ELSE resolvedImportPaths
               ELSE UNCHANGED memoVars
  /\ UNCHANGED <<variant, loadPaths, gen, setup, worldVars, sharedVars,
                 buildVars, importVars, pc, caught, result>>

\* some call that is looking takes its next turn
stepSome == \E r \in 1..MaxOverlap : step(r)

NextOverlap ==
  \/ \E f \in Files, c \in Buffers : tripSass(f, c)
  \/ \E arg \in OverlapArgs, prev \in {Stdin} \cup HandedOver : issue(arg, prev)
  \/ stepSome

\* the reads of the calls that are looking complete: while some call is
\* looking, some call takes a turn
SpecOverlap ==
  /\ InitOverlap
  /\ [][NextOverlap]_vars
  /\ WF_vars(stepSome)

\* the value is the answer a resolution of the call's own specifier from the
\* call's own importing file gives
OwnAnswer(call, value) ==
  LET k == FirstDir(call)
      found == IF k > 0 THEN PresentFiles(call, k) ELSE <<>>
      unreadable == {i \in 1..Len(found) : ~Readable(found[i])}
  IN  IF k = 0
      THEN value.type = "ImportNotFound" /\ value.arg = call.arg
      ELSE IF unreadable # {}
      THEN /\ value.type = "IOError"
           /\ \E i \in unreadable : value.file = found[i]
      ELSE IF Len(found) = 1
      THEN /\ value.type = "import"
           /\ value.file = found[1]
           /\ value.contents = Check(found[1]).contents
      ELSE /\ value.type = "ImportAmbiguous"
           /\ value.arg = call.arg
           /\ value.importer = (IF call.prev = Stdin THEN entryFile ELSE call.prev)
           /\ value.candidates = found

\* no callback was called twice, a call that has finished had its callback
\* called, and the value is the call's own answer
CalledBackAtMostOnce ==
  \A r \in 1..Len(flights) :
    /\ Len(flights[r].answers) <= 1
    /\ flights[r].state = "settled" =>
         /\ Len(flights[r].answers) = 1
         /\ OwnAnswer(flights[r], flights[r].answers[1])
    /\ flights[r].state = "walking" => flights[r].answers = <<>>

\* call number r was made and its callback has been called
CalledBack(r) == r \in 1..Len(flights) /\ Len(flights[r].answers) = 1

\* C18: the callback of every call of the importer is called, once, with a
\* resolved import or with an error, and calls that overlap each get the
\* answer of their own request
C18_CallbackExactlyOnce ==
  /\ []CalledBackAtMostOnce
  /\ \A r \in 1..MaxOverlap : (r \in 1..Len(flights)) ~> CalledBack(r)

\* two calls that overlapped were answered, one with a resolved import and
\* one with an error
C18_Witness ==
  /\ Len(flights) = 2
  /\ flights[2].during = {1}
  /\ flights[1].arg # flights[2].arg
  /\ CalledBack(1)
  /\ CalledBack(2)
  /\ flights[1].answers[1].type = "import"
  /\ flights[2].answers[1].type = "ImportAmbiguous"

TypeOK ==
  /\ pc \in {"idle", "compiling", "done"}
  /\ importerCalls \in 0..MaxImports

====
